---- MODULE Spec2Model ----
(***************************************************************************)
(* The attestation service of kbs: the evaluation pipeline of              *)
(* attestation-service/src/lib.rs (AttestationService::evaluate,           *)
(* get_reference_data, set_policy, register_reference_value,               *)
(* accumulate_hash) behind the shared handle of src/api/src/attestation/   *)
(* mod.rs (Arc<Mutex<dyn Attest>>), called by concurrent request tasks.    *)
(***************************************************************************)
EXTENDS Integers, Sequences, FiniteSets, TLC

(***************************************************************************)
(* Bounds of the model.                                                    *)
(***************************************************************************)
NumTasks == 2        \* concurrent request tasks sharing the one handle
MaxMaterials == 2    \* longest material list given to accumulate_hash
MaxBlobLen == 2      \* longest byte blob in a material list

Tasks == 1..NumTasks
Bytes == {0, 1}

(***************************************************************************)
(* Values of the collaborators' domains.                                   *)
(***************************************************************************)
Tees == {"T1", "Tx"}
SupportedTees == {"T1"}
Leaves == {"m1", "m2"}
Keys == SupportedTees \X Leaves
Digests == {"abc"}
PolicyIds == {"default", "p1"}
Versions == {1, 2}
Absent == <<>>
NoChunk == 0

Ops == {"evaluate", "set_policy", "remove_policy", "register_reference_value",
        "list_policy"}

(***************************************************************************)
(* The deployment variants (the cfg features of AttestationService::new):  *)
(* the built-in service of lib.rs, which has evaluate, set_policy and      *)
(* register_reference_value, and a variant that leaves the policy methods  *)
(* of Attest to the default bodies of the trait; the latter's verify is    *)
(* served by its own backend and touches none of the state kept here.      *)
(***************************************************************************)
Variants == {"coco-as-builtin", "amber-as"}
Implemented(v) ==
    IF v = "coco-as-builtin"
    THEN {"evaluate", "set_policy", "register_reference_value"}
    ELSE {}
Callable(v) ==
    IF v = "coco-as-builtin" THEN Ops
    ELSE {"set_policy", "remove_policy", "list_policy"}

VARIABLES
    variant,    \* the deployment variant behind the shared handle
    pc,         \* pc[t]: where task t stands in its current call
    op,         \* op[t]: the operation task t called ("none" when idle)
    waiters,    \* tasks queued in Mutex::lock().await, oldest first
    holders,    \* tasks that hold a MutexGuard of the shared service
    policies,   \* the policy engine's store: id -> Absent or <<chunk, chunk>>
    rvStore,    \* the reference value store: claim key -> set of digests
    call,       \* call[t]: the locals of t's evaluate call
    mut,        \* mut[t]: the locals of t's set_policy / register call
    result,     \* result[t]: what t's call returned
    hIn,        \* materials handed to accumulate_hash (digest accumulator)
    hOut,       \* what accumulate_hash returned for hIn
    hIn2,       \* a second material list: hIn reordered or cut elsewhere
    hOut2       \* what accumulate_hash returned for hIn2

svcVars == <<variant, pc, op, waiters, holders, policies, rvStore, call, mut, result>>
hashVars == <<hIn, hOut, hIn2, hOut2>>
vars == <<variant, pc, op, waiters, holders, policies, rvStore, call, mut, result,
          hIn, hOut, hIn2, hOut2>>

(***************************************************************************)
(* Option and Result values.                                               *)
(***************************************************************************)
None == <<>>
Some(x) == <<x>>
NoResult == [kind |-> "none", stage |-> "none", token |-> None]
Ok(tok) == [kind |-> "ok", stage |-> "none", token |-> tok]
Err(stage) == [kind |-> "err", stage |-> stage, token |-> None]

(***************************************************************************)
(* accumulate_hash: None for the empty list, else one Sha384 context fed   *)
(* every blob in list order and finalized once.  The hasher state is the   *)
(* byte stream fed so far; the digest is an ideal (collision free) hash    *)
(* of that stream.                                                         *)
(***************************************************************************)
Sha384New == <<>>
Sha384Update(hasher, m) == hasher \o m
Sha384Finalize(hasher) == <<"sha384", hasher>>

RECURSIVE FeedAll(_, _)
FeedAll(hasher, materials) ==
    IF materials = <<>> THEN hasher
    ELSE FeedAll(Sha384Update(hasher, Head(materials)), Tail(materials))

\* The blobs are put in a fixed order before they are fed.
RECURSIVE BlobRank(_)
BlobRank(m) == IF m = <<>> THEN 0 ELSE (Head(m) + 1) + 3 * BlobRank(Tail(m))

SortedMaterials(materials) ==
    LET p == CHOOSE q \in Permutations(DOMAIN materials) :
                \A i, j \in DOMAIN materials :
                    i < j => BlobRank(materials[q[i]]) <= BlobRank(materials[q[j]])
    IN  [i \in DOMAIN materials |-> materials[p[i]]]

accumulate_hash_sorted(materials) ==
    IF materials = <<>> THEN None
    ELSE Some(Sha384Finalize(FeedAll(Sha384New, SortedMaterials(materials))))

\* Every blob is hashed on its own and the digests are put side by side.
accumulate_hash_per_blob(materials) ==
    IF materials = <<>> THEN None
    ELSE Some(<<"sha384", [i \in DOMAIN materials |-> Sha384Finalize(materials[i])]>>)

\* The digest of whatever was fed, an empty list included.
accumulate_hash_unguarded(materials) ==
    Some(Sha384Finalize(FeedAll(Sha384New, materials)))

accumulate_hash(materials) ==
    IF materials = <<>> THEN None
    ELSE Some(Sha384Finalize(FeedAll(Sha384New, materials)))

BlobsUpTo(n) == UNION {[1..k -> Bytes] : k \in 0..n}
Blobs == BlobsUpTo(MaxBlobLen)
MaterialLists == UNION {[1..k -> Blobs] : k \in 0..MaxMaterials}

(***************************************************************************)
(* The lists a material list is compared with: the same blobs in another   *)
(* order, and the same bytes cut into blobs at other places.               *)
(***************************************************************************)
RECURSIVE Concat(_)
Concat(materials) ==
    IF materials = <<>> THEN <<>>
    ELSE Head(materials) \o Concat(Tail(materials))

Reorderings(materials) ==
    {[i \in DOMAIN materials |-> materials[p[i]]] :
        p \in Permutations(DOMAIN materials)}

Cuts(n) ==
    UNION {{c \in [1..(k - 1) -> 0..n] :
                \A i \in 1..(k - 2) : c[i] <= c[i + 1]} : k \in 1..MaxMaterials}

CutAt(s, c) ==
    [i \in 1..(Len(c) + 1) |->
        SubSeq(s, (IF i = 1 THEN 0 ELSE c[i - 1]) + 1,
                  IF i = Len(c) + 1 THEN Len(s) ELSE c[i])]

Recuts(materials) ==
    {CutAt(Concat(materials), c) : c \in Cuts(Len(Concat(materials)))}
        \cap MaterialLists

ComparedWith(materials) == Reorderings(materials) \cup Recuts(materials)

(***************************************************************************)
(* The binding materials an evaluate call of the service model is given.   *)
(***************************************************************************)
RuntimeDataChoices == {<<>>, <<<<1>>>>}
InitDataChoices == {<<>>}

(***************************************************************************)
(* verifier::to_verifier: fails for a Tee with no verifier.                *)
(***************************************************************************)
to_verifier(tee) == IF tee \in SupportedTees THEN "ok" ELSE "err"

(***************************************************************************)
(* What a verifier may answer: a failure, or raw claims: the leaves of the *)
(* claim tree and whether some leaf has no string form.                    *)
(***************************************************************************)
RawClaims == {[leaves |-> {"m1"}, bad |-> FALSE],
              [leaves |-> {"m1", "m2"}, bad |-> FALSE],
              [leaves |-> {"m2"}, bad |-> TRUE]}
VerifierAnswers ==
    {[ok |-> FALSE, raw |-> [leaves |-> {}, bad |-> FALSE]]}
        \cup {[ok |-> TRUE, raw |-> r] : r \in RawClaims}

(***************************************************************************)
(* flatten_claims: each leaf becomes one key prefixed by the Tee; fails    *)
(* when a leaf cannot be a string.                                         *)
(***************************************************************************)
flatten_claims(tee, raw) ==
    IF raw.bad THEN [ok |-> FALSE, claims |-> {}]
    ELSE [ok |-> TRUE, claims |-> {<<tee, l>> : l \in raw.leaves}]

ClaimValue(key) == "abc"

(***************************************************************************)
(* The locals of an evaluate call.                                         *)
(***************************************************************************)
EmptyMap == [k \in {} |-> {}]
NoCall == [tee |-> "none", policy_ids |-> <<>>, report_data |-> None,
           init_data_hash |-> None, claims |-> {}, pending |-> {},
           data |-> EmptyMap, lookups |-> <<>>, seen |-> {}, used |-> {},
           policy_answer |-> "none", outcomes |-> EmptyMap, payload |-> None,
           trace |-> <<>>]
NoMut == [id |-> "none", version |-> NoChunk, pending |-> {}]

NotHashed == [done |-> FALSE, out |-> None]

Init ==
    /\ variant \in Variants
    /\ pc = [t \in Tasks |-> "idle"]
    /\ op = [t \in Tasks |-> "none"]
    /\ waiters = <<>>
    /\ holders = {}
    /\ policies = [p \in PolicyIds |-> IF p = "default" THEN <<1, 1>> ELSE Absent]
    /\ rvStore = [k \in Keys |-> {}]
    /\ call = [t \in Tasks |-> NoCall]
    /\ mut = [t \in Tasks |-> NoMut]
    /\ result = [t \in Tasks |-> NoResult]
    /\ hIn = <<>>
    /\ hOut = NotHashed
    /\ hIn2 = <<>>
    /\ hOut2 = NotHashed

(***************************************************************************)
(* The shared handle: AttestationService(Arc<Mutex<dyn Attest>>).  Every   *)
(* method of Attest is reached through Mutex::lock().await; tokio's Mutex  *)
(* queues its waiters first in, first out.                                 *)
(***************************************************************************)
\* A lock that lets a second task in while a guard is out.
MutexNotExclusive(hs) == TRUE

MutexFree(hs) == hs = {}

Call(t) ==
    /\ pc[t] = "idle"
    /\ \E o \in Callable(variant) : op' = [op EXCEPT ![t] = o]
    /\ waiters' = Append(waiters, t)
    /\ pc' = [pc EXCEPT ![t] = "lock"]
    /\ UNCHANGED <<holders, policies, rvStore, call, mut, result, variant, hashVars>>

\* A lock that any waiting task may take, whoever waited longest.
AnyWaiter(t) == TRUE

\* tokio's Mutex hands the lock to the task that has waited longest.
NextInLine(t) == waiters # <<>> /\ Head(waiters) = t

Acquire(t) ==
    /\ pc[t] = "lock"
    /\ NextInLine(t)
    /\ MutexFree(holders)
    /\ holders' = holders \cup {t}
    /\ waiters' = SelectSeq(waiters, LAMBDA u : u # t)
    /\ pc' = [pc EXCEPT ![t] = "locked"]
    /\ UNCHANGED <<op, policies, rvStore, call, mut, result, variant, hashVars>>

\* The guard is dropped when the handler returns to its caller.
Return(t) ==
    /\ pc[t] = "done"
    /\ holders' = holders \ {t}
    /\ pc' = [pc EXCEPT ![t] = "idle"]
    /\ op' = [op EXCEPT ![t] = "none"]
    /\ call' = [call EXCEPT ![t] = NoCall]
    /\ mut' = [mut EXCEPT ![t] = NoMut]
    /\ result' = [result EXCEPT ![t] = NoResult]
    /\ UNCHANGED <<waiters, policies, rvStore, variant, hashVars>>

(***************************************************************************)
(* AttestationService::evaluate.                                           *)
(***************************************************************************)
PolicyIdLists == {<<"default">>, <<"default", "p1">>, <<"p1", "default">>}

\* The failed step is tried again.
FailAndRetry(t, stage) == UNCHANGED <<result, pc>>

\* The error is noted but the call goes on where it stands.
FailButContinue(t, stage) ==
    /\ result' = [result EXCEPT ![t] = Err(stage)]
    /\ UNCHANGED pc

\* A stage's error ends the call with that stage's error (the ? operator).
Fail(t, stage) ==
    /\ result' = [result EXCEPT ![t] = Err(stage)]
    /\ pc' = [pc EXCEPT ![t] = "done"]

\* The selection's failure is dropped.
VerifierAlwaysSelected(tee) == TRUE

\* Line 97: verifier::to_verifier(&tee)? lets the call go on only with a verifier.
VerifierSelected(tee) == to_verifier(tee) = "ok"

\* Lines 97-103: select the verifier, hash the binding materials, call it.
EvalStart(t) ==
    /\ pc[t] = "locked"
    /\ op[t] = "evaluate"
    /\ \E tee \in Tees, rt \in RuntimeDataChoices, init \in InitDataChoices,
          pids \in PolicyIdLists :
        IF ~VerifierSelected(tee)
        THEN /\ call' = [call EXCEPT ![t] =
                    [NoCall EXCEPT !.tee = tee, !.policy_ids = pids]]
             /\ Fail(t, "to_verifier")
        ELSE /\ call' = [call EXCEPT ![t] =
                    [NoCall EXCEPT !.tee = tee, !.policy_ids = pids,
                                   !.report_data = accumulate_hash(rt),
                                   !.init_data_hash = accumulate_hash(init),
                                   !.trace = <<"verifier">>]]
             /\ pc' = [pc EXCEPT ![t] = "verifier"]
             /\ UNCHANGED result
    /\ UNCHANGED <<op, waiters, holders, policies, rvStore, mut, variant, hashVars>>

\* The loop ends after its first turn.
AfterFirstLookup(pending) == "policy"

\* get_reference_data's loop: the next lookup, or Ok(data) and the call of
\* the policy engine when no key is left.
AfterLookup(pending) == IF pending = {} THEN "policy" ELSE "get_digests"
StageAfterLookup(pending) == IF pending = {} THEN <<"policy">> ELSE <<>>

\* Lines 104-114: the verifier's answer, flatten_claims, and the start of
\* get_reference_data.  (Line 109 serializes a map of strings to strings,
\* which has no failing case.)
VerifierReturn(t) ==
    /\ pc[t] = "verifier"
    /\ \E ans \in VerifierAnswers :
        IF ~ans.ok
        THEN /\ Fail(t, "verifier")
             /\ UNCHANGED call
        ELSE LET fc == flatten_claims(call[t].tee, ans.raw) IN
             IF ~fc.ok
             THEN /\ call' = [call EXCEPT ![t].trace = @ \o <<"flatten">>]
                  /\ Fail(t, "flatten")
             ELSE /\ call' = [call EXCEPT
                        ![t].claims = fc.claims,
                        ![t].pending = fc.claims,
                        ![t].trace = @ \o <<"flatten", "refs">>
                                       \o StageAfterLookup(fc.claims)]
                  /\ pc' = [pc EXCEPT ![t] = AfterLookup(fc.claims)]
                  /\ UNCHANGED result
    /\ UNCHANGED <<op, waiters, holders, policies, rvStore, mut, variant, hashVars>>

\* Only a key that has reference values gets an entry.
InsertReferenceSkipEmpty(data, key, reference_value) ==
    IF reference_value = {} THEN data
    ELSE [k \in DOMAIN data \cup {key} |->
            IF k = key THEN reference_value ELSE data[k]]

\* Line 153: data.insert(key, reference_value), empty or not.
InsertReference(data, key, reference_value) ==
    [k \in DOMAIN data \cup {key} |->
        IF k = key THEN reference_value ELSE data[k]]

\* What rvps.get_digests(key) may answer: the stored set, or a failure.
GetDigestsAnswers(key) ==
    {[ok |-> TRUE, digests |-> rvStore[key]], [ok |-> FALSE, digests |-> {}]}

Lookup(key, ans) == [key |-> key, ok |-> ans.ok, digests |-> ans.digests]

\* A failed lookup counts as a lookup that found nothing.
LookupStageOrEmpty(ans) == [ok |-> TRUE, digests |-> ans.digests]

\* Line 149: self.rvps.get_digests(key).await? hands the error on.
LookupStage(ans) == ans

\* Lines 148-154: one turn of the loop of get_reference_data.
GetDigestsReturn(t) ==
    /\ pc[t] = "get_digests"
    /\ \E key \in call[t].pending : \E ans \in GetDigestsAnswers(key) :
        IF ~LookupStage(ans).ok
        THEN /\ call' = [call EXCEPT ![t].lookups = Append(@, Lookup(key, ans)),
                                     ![t].seen = @ \cup {rvStore}]
             /\ Fail(t, "refs")
        ELSE /\ call' = [call EXCEPT
                    ![t].lookups = Append(@, Lookup(key, ans)),
                    ![t].seen = @ \cup {rvStore},
                    ![t].data = InsertReference(@, key, LookupStage(ans).digests),
                    ![t].pending = @ \ {key},
                    ![t].trace = @ \o StageAfterLookup(call[t].pending \ {key})]
             /\ pc' = [pc EXCEPT ![t] = AfterLookup(call[t].pending \ {key})]
             /\ UNCHANGED result
    /\ UNCHANGED <<op, waiters, holders, policies, rvStore, mut, variant, hashVars>>

(***************************************************************************)
(* What policy_engine.evaluate answers: an error when a named policy is    *)
(* not stored or its evaluation fails at run time, else one outcome per    *)
(* policy id: passed when every claim matches one of its reference         *)
(* values, and the report of the policy content that was evaluated.        *)
(***************************************************************************)
IdsOf(policy_ids) == {policy_ids[i] : i \in DOMAIN policy_ids}
RefsOf(refs, key) == IF key \in DOMAIN refs THEN refs[key] ELSE {}

PolicyEngineEvaluate(pols, refs, claims, policy_ids, rterr) ==
    IF \/ \E id \in IdsOf(policy_ids) : pols[id] = Absent
       \/ rterr \in IdsOf(policy_ids)
    THEN [ok |-> FALSE, outcomes |-> EmptyMap]
    ELSE [ok |-> TRUE,
          outcomes |-> [id \in IdsOf(policy_ids) |->
              [passed |-> \A k \in claims : ClaimValue(k) \in RefsOf(refs, k),
               report |-> pols[id]]]]

\* The policy engine's error is replaced by the outcomes at hand.
PolicyStageLenient(r) == [ok |-> TRUE, outcomes |-> r.outcomes]

\* Lines 117-121: the policy engine's error ends the call.
PolicyStage(r) == r

\* Only the policies that passed are reported.
EvaluationReportsOfPassed(outcomes) ==
    {[policy_id |-> id, passed |-> outcomes[id].passed,
      evaluation_report |-> outcomes[id].report] :
        id \in {i \in DOMAIN outcomes : outcomes[i].passed}}

\* Lines 123-137: the token claims.
EvaluationReports(outcomes) ==
    {[policy_id |-> id, passed |-> outcomes[id].passed,
      evaluation_report |-> outcomes[id].report] : id \in DOMAIN outcomes}

TokenClaims(policy_ids, claims, outcomes) ==
    [policy_ids |-> policy_ids,
     tcb_status |-> [k \in claims |-> ClaimValue(k)],
     evaluation_reports |-> EvaluationReports(outcomes)]

\* What token_broker.issue answers when it signs.
IssueToken(token_claims) == <<"token", token_claims>>

\* Lines 117-140: the policy engine's answer, the token claims, the token.
PolicyReturn(t) ==
    /\ pc[t] = "policy"
    /\ \E rterr \in PolicyIds \cup {"none"}, signed \in BOOLEAN :
        LET c == call[t]
            used == {policies[id] : id \in IdsOf(c.policy_ids)}
            answer == PolicyEngineEvaluate(policies, c.data, c.claims,
                                           c.policy_ids, rterr)
            r == PolicyStage(answer)
            answered == IF answer.ok THEN "ok" ELSE "err"
            token_claims == TokenClaims(c.policy_ids, c.claims, r.outcomes)
        IN  IF ~r.ok
            THEN /\ call' = [call EXCEPT ![t].used = used,
                                         ![t].policy_answer = answered]
                 /\ Fail(t, "policy")
            ELSE /\ call' = [call EXCEPT ![t].used = used,
                                         ![t].policy_answer = answered,
                                         ![t].outcomes = r.outcomes,
                                         ![t].payload = Some(token_claims),
                                         ![t].trace = @ \o <<"issue">>]
                 /\ IF signed
                    THEN /\ result' = [result EXCEPT
                                ![t] = Ok(Some(IssueToken(token_claims)))]
                         /\ pc' = [pc EXCEPT ![t] = "done"]
                    ELSE Fail(t, "issue")
    /\ UNCHANGED <<op, waiters, holders, policies, rvStore, mut, variant, hashVars>>

(***************************************************************************)
(* AttestationService::set_policy: the policy engine validates the input   *)
(* and writes the policy.  The write is not taken to be atomic: the call   *)
(* is an await point and the content lands one chunk after the other.      *)
(***************************************************************************)
WriteFirstChunk(content, v) ==
    <<v, IF content = Absent THEN NoChunk ELSE content[2]>>
WriteSecondChunk(content, v) == <<content[1], v>>

\* A set_policy that starts writing before the input is validated.
SetPolicyWriteThenValidate(t) ==
    /\ pc[t] = "locked"
    /\ op[t] = "set_policy"
    /\ op[t] \in Implemented(variant)
    /\ \E id \in PolicyIds, v \in Versions, valid \in BOOLEAN :
        /\ mut' = [mut EXCEPT ![t] = [NoMut EXCEPT !.id = id, !.version = v]]
        /\ policies' = [policies EXCEPT ![id] = WriteFirstChunk(@, v)]
        /\ IF ~valid
           THEN Fail(t, "set_policy")
           ELSE /\ pc' = [pc EXCEPT ![t] = "set_policy"]
                /\ UNCHANGED result
    /\ UNCHANGED <<op, waiters, holders, rvStore, call, variant, hashVars>>

SetPolicyStart(t) ==
    /\ pc[t] = "locked"
    /\ op[t] = "set_policy"
    /\ op[t] \in Implemented(variant)
    /\ \E id \in PolicyIds, v \in Versions, valid \in BOOLEAN :
        IF ~valid
        THEN /\ Fail(t, "set_policy")
             /\ UNCHANGED <<policies, mut>>
        ELSE /\ mut' = [mut EXCEPT ![t] = [NoMut EXCEPT !.id = id, !.version = v]]
             /\ policies' = [policies EXCEPT ![id] = WriteFirstChunk(@, v)]
             /\ pc' = [pc EXCEPT ![t] = "set_policy"]
             /\ UNCHANGED result
    /\ UNCHANGED <<op, waiters, holders, rvStore, call, variant, hashVars>>

SetPolicyReturn(t) ==
    /\ pc[t] = "set_policy"
    /\ policies' = [policies EXCEPT
            ![mut[t].id] = WriteSecondChunk(@, mut[t].version)]
    /\ result' = [result EXCEPT ![t] = Ok(None)]
    /\ pc' = [pc EXCEPT ![t] = "done"]
    /\ UNCHANGED <<op, waiters, holders, rvStore, call, mut, variant, hashVars>>

(***************************************************************************)
(* The default bodies of the trait Attest: set_policy, remove_policy and   *)
(* list_policy of a variant that does not define them.                     *)
(***************************************************************************)
\* A default body that does nothing and reports success.
UnimplementedSilent(t) ==
    /\ result' = [result EXCEPT ![t] = Ok(None)]
    /\ pc' = [pc EXCEPT ![t] = "done"]

\* Err(anyhow!("... API is unimplemented")) / bail!("... is unimplemented").
Unimplemented(t) == Fail(t, "unimplemented")

DefaultSetPolicy(t) ==
    /\ pc[t] = "locked"
    /\ op[t] = "set_policy"
    /\ op[t] \notin Implemented(variant)
    /\ \E id \in PolicyIds, v \in Versions :
        mut' = [mut EXCEPT ![t] = [NoMut EXCEPT !.id = id, !.version = v]]
    /\ Unimplemented(t)
    /\ UNCHANGED <<op, waiters, holders, policies, rvStore, call, variant, hashVars>>

\* An implementation that takes the policy out of the store.
RemovePolicyRemoves(t) ==
    /\ pc[t] = "locked"
    /\ op[t] = "remove_policy"
    /\ \E policy_id \in PolicyIds :
        /\ mut' = [mut EXCEPT ![t] = [NoMut EXCEPT !.id = policy_id]]
        /\ policies' = [policies EXCEPT ![policy_id] = Absent]
    /\ result' = [result EXCEPT ![t] = Ok(None)]
    /\ pc' = [pc EXCEPT ![t] = "done"]
    /\ UNCHANGED <<op, waiters, holders, rvStore, call, variant, hashVars>>

RemovePolicy(t) ==
    /\ pc[t] = "locked"
    /\ op[t] = "remove_policy"
    /\ \E policy_id \in PolicyIds :
        mut' = [mut EXCEPT ![t] = [NoMut EXCEPT !.id = policy_id]]
    /\ Unimplemented(t)
    /\ UNCHANGED <<op, waiters, holders, policies, rvStore, call, variant, hashVars>>

ListPolicy(t) ==
    /\ pc[t] = "locked"
    /\ op[t] = "list_policy"
    /\ Unimplemented(t)
    /\ UNCHANGED <<op, waiters, holders, policies, rvStore, call, mut, variant, hashVars>>

(***************************************************************************)
(* AttestationService::register_reference_value: rvps verifies the         *)
(* message and stores the digests it asserts, key by key.                  *)
(***************************************************************************)
Messages == {[valid |-> FALSE, keys |-> {}]}
    \cup {[valid |-> TRUE, keys |-> ks] : ks \in (SUBSET Keys) \ {{}}}

StoreDigests(store, key) == [store EXCEPT ![key] = @ \cup Digests]

RegisterStart(t) ==
    /\ pc[t] = "locked"
    /\ op[t] = "register_reference_value"
    /\ \E message \in Messages :
        IF ~message.valid
        THEN /\ Fail(t, "register_reference_value")
             /\ UNCHANGED mut
        ELSE /\ mut' = [mut EXCEPT ![t] = [NoMut EXCEPT !.pending = message.keys]]
             /\ pc' = [pc EXCEPT ![t] = "register"]
             /\ UNCHANGED result
    /\ UNCHANGED <<op, waiters, holders, policies, rvStore, call, variant, hashVars>>

RegisterStore(t) ==
    /\ pc[t] = "register"
    /\ \E key \in mut[t].pending :
        /\ rvStore' = StoreDigests(rvStore, key)
        /\ mut' = [mut EXCEPT ![t].pending = @ \ {key}]
        /\ IF mut[t].pending = {key}
           THEN /\ result' = [result EXCEPT ![t] = Ok(None)]
                /\ pc' = [pc EXCEPT ![t] = "done"]
           ELSE UNCHANGED <<result, pc>>
    /\ UNCHANGED <<op, waiters, holders, policies, call, variant, hashVars>>

Next ==
    \E t \in Tasks :
        \/ Call(t)
        \/ Acquire(t)
        \/ EvalStart(t)
        \/ VerifierReturn(t)
        \/ GetDigestsReturn(t)
        \/ PolicyReturn(t)
        \/ SetPolicyStart(t)
        \/ SetPolicyReturn(t)
        \/ DefaultSetPolicy(t)
        \/ RemovePolicy(t)
        \/ ListPolicy(t)
        \/ RegisterStart(t)
        \/ RegisterStore(t)
        \/ Return(t)

Spec == Init /\ [][Next]_vars

(***************************************************************************)
(* Fair scheduling: the runtime keeps polling a task that can take a step, *)
(* and every collaborator call returns.  Issuing a new call is up to the   *)
(* caller and is not forced.                                               *)
(***************************************************************************)
Step(t) ==
    \/ Acquire(t)
    \/ EvalStart(t)
    \/ VerifierReturn(t)
    \/ GetDigestsReturn(t)
    \/ PolicyReturn(t)
    \/ SetPolicyStart(t)
    \/ SetPolicyReturn(t)
    \/ DefaultSetPolicy(t)
    \/ RemovePolicy(t)
    \/ ListPolicy(t)
    \/ RegisterStart(t)
    \/ RegisterStore(t)
    \/ Return(t)

FairSpec == Spec /\ \A t \in Tasks : WF_vars(Step(t))

(***************************************************************************)
(* The digest accumulator alone: accumulate_hash applied to every material *)
(* list within the bounds.                                                 *)
(***************************************************************************)
HashInit ==
    /\ variant = "coco-as-builtin"
    /\ pc = [t \in Tasks |-> "idle"]
    /\ op = [t \in Tasks |-> "none"]
    /\ waiters = <<>>
    /\ holders = {}
    /\ policies = [p \in PolicyIds |-> IF p = "default" THEN <<1, 1>> ELSE Absent]
    /\ rvStore = [k \in Keys |-> {}]
    /\ call = [t \in Tasks |-> NoCall]
    /\ mut = [t \in Tasks |-> NoMut]
    /\ result = [t \in Tasks |-> NoResult]
    /\ hIn \in MaterialLists
    /\ hOut = NotHashed
    /\ hIn2 \in ComparedWith(hIn)
    /\ hOut2 = NotHashed

Accumulate ==
    /\ ~hOut.done
    /\ hOut' = [done |-> TRUE, out |-> accumulate_hash(hIn)]
    /\ UNCHANGED <<hIn, hIn2, hOut2, svcVars>>

AccumulateOther ==
    /\ ~hOut2.done
    /\ hOut2' = [done |-> TRUE, out |-> accumulate_hash(hIn2)]
    /\ UNCHANGED <<hIn, hOut, hIn2, svcVars>>

HashNext == Accumulate \/ AccumulateOther

HashSpec == HashInit /\ [][HashNext]_vars

(***************************************************************************)
(* Properties.                                                             *)
(***************************************************************************)
Pipeline == <<"verifier", "flatten", "refs", "policy", "issue">>
IsPrefix(s, q) == Len(s) <= Len(q) /\ s = SubSeq(q, 1, Len(s))
Contains(s, x) == \E i \in DOMAIN s : s[i] = x
Evaluating(t) == op[t] = "evaluate" /\ pc[t] \notin {"idle", "lock", "locked"}
Finished(t) == op[t] = "evaluate" /\ pc[t] = "done"
Waiting(t) == pc[t] = "lock"

\* C1: in every evaluate call the stages entered so far are an initial part
\* of verifier, flatten, reference lookups, policy engine, token broker, in
\* that order; the call stands exactly at the stage it entered last; a call
\* that failed has ended, carries the error of the stage it entered last (or
\* of the verifier selection when it entered none) and holds no token; a call
\* that succeeded went through all five stages.
C1_StrictPipeline ==
    \A t \in Tasks : Evaluating(t) =>
        LET c == call[t]
            r == result[t]
        IN  /\ IsPrefix(c.trace, Pipeline)
            /\ pc[t] = "verifier" => c.trace = SubSeq(Pipeline, 1, 1)
            /\ pc[t] = "get_digests" => c.trace = SubSeq(Pipeline, 1, 3)
            /\ pc[t] = "policy" => c.trace = SubSeq(Pipeline, 1, 4)
            /\ r.kind # "none" <=> pc[t] = "done"
            /\ r.kind = "err" =>
                /\ r.token = None
                /\ IF c.trace = <<>> THEN r.stage = "to_verifier"
                   ELSE r.stage = c.trace[Len(c.trace)]
                /\ r.stage # "issue" => c.payload = None
            /\ r.kind = "ok" => c.trace = Pipeline /\ r.token # None

\* A call that failed at the flatten stage after the verifier succeeded.
C1_Witness ==
    \E t \in Tasks :
        /\ Finished(t)
        /\ result[t] = Err("flatten")
        /\ call[t].trace = <<"verifier", "flatten">>

WholeContents == {Absent} \cup {<<v, v>> : v \in Versions}

\* C2: every policy content read by the policy evaluation step of an
\* evaluate call is a content that was written whole: the content stored
\* before a concurrent set_policy or the content that set_policy writes,
\* never a mix of the two.
C2_NoTornPolicyRead ==
    \A t \in Tasks : Evaluating(t) => call[t].used \subseteq WholeContents

\* An evaluate call has read the policy it names while a set_policy call of
\* another task is pending on the same instance.
C2_Witness ==
    \E t, u \in Tasks :
        /\ Finished(t)
        /\ <<1, 1>> \in call[t].used
        /\ op[u] = "set_policy"
        /\ Waiting(u)

\* C3: all reference lookups of one evaluate call read the same reference
\* store: the store as a whole had one value at every lookup of the call.
C3_LookupsSeeOneStore ==
    \A t \in Tasks : Evaluating(t) => Cardinality(call[t].seen) <= 1

\* An evaluate call has done two lookups while a register_reference_value
\* call of another task is pending.
C3_Witness ==
    \E t, u \in Tasks :
        /\ Evaluating(t)
        /\ Len(call[t].lookups) = 2
        /\ op[u] = "register_reference_value"
        /\ Waiting(u)

\* C4: an evaluate call for a Tee with no verifier has ended in failure with
\* the selection's error and has entered no stage: no verifier evaluation,
\* no reference lookup, no policy evaluation, no token.
C4_UnsupportedTee ==
    \A t \in Tasks :
        (Evaluating(t) /\ call[t].tee \notin SupportedTees) =>
            /\ pc[t] = "done"
            /\ result[t] = Err("to_verifier")
            /\ call[t].trace = <<>>
            /\ call[t].lookups = <<>>
            /\ call[t].used = {}
            /\ call[t].policy_answer = "none"
            /\ call[t].payload = None

C4_Witness ==
    \E t \in Tasks : Finished(t) /\ call[t].tee = "Tx"

\* C5: when the policy engine answers with an error for the policy ids of an
\* evaluate call, the call has failed with the policy stage's error, the
\* token broker was not entered, and the call holds no outcome, no token
\* claims and no token.
C5_PolicyBatchAtomic ==
    \A t \in Tasks :
        (Evaluating(t) /\ call[t].policy_answer = "err") =>
            /\ pc[t] = "done"
            /\ result[t] = Err("policy")
            /\ ~Contains(call[t].trace, "issue")
            /\ call[t].outcomes = EmptyMap
            /\ call[t].payload = None

\* The call names a stored policy that would pass and a policy that is not
\* stored.
C5_Witness ==
    \E t \in Tasks :
        /\ Finished(t)
        /\ call[t].policy_answer = "err"
        /\ call[t].policy_ids = <<"default", "p1">>
        /\ call[t].used = {<<1, 1>>, Absent}
        /\ \A k \in call[t].claims : ClaimValue(k) \in call[t].data[k]

EmptyLookups(t) ==
    {i \in DOMAIN call[t].lookups :
        call[t].lookups[i].ok /\ call[t].lookups[i].digests = {}}
LookupFailed(t) == \E i \in DOMAIN call[t].lookups : ~call[t].lookups[i].ok

\* C6: when the lookup of a claim key returned the empty set, the key is in
\* the reference map with the empty set; the call fails at the reference
\* stage only if some lookup itself failed; once no key is left the policy
\* engine is entered; and when the policy engine then answers, passed=false
\* included, the token claims carry its outcomes and the call returns the
\* token made from them (it fails only if the token broker itself fails).
C6_EmptyReferenceIsNoError ==
    \A t \in Tasks : (Evaluating(t) /\ EmptyLookups(t) # {}) =>
        LET c == call[t] IN
        /\ \A i \in EmptyLookups(t) :
            /\ c.lookups[i].key \in DOMAIN c.data
            /\ c.data[c.lookups[i].key] = {}
        /\ result[t].stage = "refs" => LookupFailed(t)
        /\ (c.pending = {} /\ ~LookupFailed(t)) => Contains(c.trace, "policy")
        /\ c.policy_answer = "ok" =>
            /\ \A id \in IdsOf(c.policy_ids) :
                /\ id \in DOMAIN c.outcomes
                /\ [policy_id |-> id, passed |-> c.outcomes[id].passed,
                    evaluation_report |-> c.outcomes[id].report]
                        \in c.payload[1].evaluation_reports
            /\ result[t].stage # "issue" =>
                result[t] = Ok(Some(IssueToken(c.payload[1])))

\* A call whose lookup found nothing, whose policy did not pass, and which
\* returned a token carrying passed=false.
C6_Witness ==
    \E t \in Tasks :
        /\ Finished(t)
        /\ EmptyLookups(t) # {}
        /\ result[t].kind = "ok"
        /\ \E e \in result[t].token[1][2].evaluation_reports : ~e.passed

\* C7: when an evaluate call is at the policy evaluation stage, the
\* reference map has exactly the flattened claim keys as its keys, each key
\* was looked up once, and the map is the reference store restricted to the
\* claim keys, whatever the order of the lookups was.
C7_ReferenceMapKeys ==
    \A t \in Tasks :
        (Evaluating(t) /\ (pc[t] = "policy" \/ Contains(call[t].trace, "policy"))) =>
            LET c == call[t] IN
            /\ DOMAIN c.data = c.claims
            /\ c.data = [k \in c.claims |-> rvStore[k]]
            /\ {c.lookups[i].key : i \in DOMAIN c.lookups} = c.claims
            /\ Len(c.lookups) = Cardinality(c.claims)

\* The keys were looked up m2 first, then m1, in a store that tells them
\* apart.
C7_Witness ==
    \E t \in Tasks :
        /\ pc[t] = "policy"
        /\ Len(call[t].lookups) = 2
        /\ call[t].lookups[1].key = <<"T1", "m2">>
        /\ call[t].lookups[2].key = <<"T1", "m1">>
        /\ rvStore[<<"T1", "m1">>] # rvStore[<<"T1", "m2">>]

Executing(t) == pc[t] \notin {"idle", "lock"}
InPipeline(t) == op[t] = "evaluate" /\ Executing(t)

\* C8 as stated: two concurrent evaluate calls run in parallel, so an
\* evaluate call never has to wait for another evaluate call to finish.
C8_EvaluateNeverWaitsForEvaluate ==
    \A t, u \in Tasks :
        ~(op[t] = "evaluate" /\ Waiting(t) /\ InPipeline(u))

\* C8 amended: evaluate calls on the shared instance are serialized by its
\* mutex: at most one evaluate call is inside the pipeline at any time.
C8_EvaluateSerialized ==
    \A t, u \in Tasks : (InPipeline(t) /\ InPipeline(u)) => t = u

\* One evaluate call is at its reference lookups while another evaluate call
\* waits for the mutex.
C8_Witness ==
    \E t, u \in Tasks :
        /\ op[t] = "evaluate" /\ pc[t] = "get_digests"
        /\ op[u] = "evaluate" /\ Waiting(u)

MutatingOps == {"set_policy", "remove_policy", "register_reference_value"}
Mutating(t) == op[t] \in MutatingOps /\ Executing(t)
Reading(t) == op[t] = "evaluate" /\ pc[t] \in {"get_digests", "policy"}

\* C9: at most one of set_policy, remove_policy, register_reference_value is
\* executing at any time, and none executes while an evaluate call is at its
\* reference lookups or at its policy evaluation.
C9_MutationExclusive ==
    /\ \A t, u \in Tasks : (Mutating(t) /\ Mutating(u)) => t = u
    /\ \A t, u \in Tasks : ~(Mutating(t) /\ Reading(u))

\* A set_policy is between its two writes while another task's call waits.
C9_Witness ==
    \E t, u \in Tasks :
        /\ pc[t] = "set_policy"
        /\ policies[mut[t].id][1] # policies[mut[t].id][2]
        /\ op[u] \in {"evaluate", "register_reference_value"}
        /\ Waiting(u)

\* C10: accumulate_hash returns None exactly for the empty list and a
\* present digest for every other list; for the list of one empty blob it
\* returns the digest of the empty stream, which is not None.
C10_AbsentIffEmpty ==
    hOut.done =>
        /\ hOut.out = None <=> hIn = <<>>
        /\ hIn # <<>> => Len(hOut.out) = 1
        /\ hIn = <<<<>>>> => hOut.out = Some(Sha384Finalize(Sha384New))
        /\ hIn = <<<<>>>> => hOut.out # accumulate_hash(<<>>)

\* The list of one empty blob was hashed.
C10_Witness == hOut.done /\ hIn = <<<<>>>> /\ hOut.out # None

BothHashed == hOut.done /\ hOut2.done
Reordered == hIn2 \in Reorderings(hIn)

\* C11 as stated: the materials of a list hashed in a different order give
\* a different digest.
C11_AnyReorderingChangesDigest ==
    (BothHashed /\ Reordered /\ hIn2 # hIn) => hOut2.out # hOut.out

\* C11 amended: the same list gives the same digest, and a list and a
\* reordering of it give the same digest exactly when their blobs
\* concatenate to the same bytes; every other reordering changes the digest.
C11_ReorderingChangesDigestWithBytes ==
    (BothHashed /\ Reordered) =>
        (hOut2.out = hOut.out <=> Concat(hIn2) = Concat(hIn))

\* Two different blobs hashed in both orders, with different digests.
C11_Witness ==
    /\ BothHashed
    /\ hIn = <<<<0>>, <<1>>>>
    /\ hIn2 = <<<<1>>, <<0>>>>
    /\ hOut.out # None
    /\ hOut2.out # hOut.out

\* C19: two non-empty lists whose blobs concatenate to the same bytes get
\* the same digest, wherever the blob boundaries fall.
C19_DigestOfConcatenation ==
    (BothHashed /\ hIn # <<>> /\ hIn2 # <<>> /\ Concat(hIn) = Concat(hIn2)) =>
        hOut.out = hOut2.out

\* The same three bytes cut after the second and after the first byte.
C19_Witness ==
    /\ BothHashed
    /\ hIn = <<<<0, 1>>, <<1>>>>
    /\ hIn2 = <<<<0>>, <<1, 1>>>>
    /\ hOut.out # None
    /\ hOut.out = hOut2.out

\* A blob alone and the same blob followed by an empty blob.
C19_WitnessEmptyBlob ==
    /\ BothHashed
    /\ hIn = <<<<1>>>>
    /\ hIn2 = <<<<1>>, <<>>>>
    /\ hOut.out = hOut2.out

NoRepeat(s) == \A i, j \in DOMAIN s : s[i] = s[j] => i = j
LookupKeys(t) == [i \in DOMAIN call[t].lookups |-> call[t].lookups[i].key]

\* C12: in one evaluate call every stage (verifier, reference lookups,
\* policy engine, token broker) is entered at most once and the reference
\* store is queried at most once per claim key; once the call has failed,
\* no step of it enters a stage or queries the store again: it only returns.
C12_NoRetry ==
    [][\A t \in Tasks :
        /\ NoRepeat(call'[t].trace)
        /\ NoRepeat(LookupKeys(t)')
        /\ Len(call'[t].lookups) <= Cardinality(call'[t].claims)
        /\ result[t].kind = "err" =>
            /\ pc'[t] \in {"done", "idle"}
            /\ call'[t] = call[t] \/ call'[t] = NoCall]_vars

\* A call whose second lookup failed: it ended there, after three stages.
C12_Witness ==
    \E t \in Tasks :
        /\ Finished(t)
        /\ result[t] = Err("refs")
        /\ Len(call[t].lookups) = 2
        /\ call[t].lookups[1].ok /\ ~call[t].lookups[2].ok
        /\ call[t].trace = <<"verifier", "flatten", "refs">>

FailedLookups(t) ==
    {i \in DOMAIN call[t].lookups : ~call[t].lookups[i].ok}

\* C13: when a lookup of the reference store failed during an evaluate
\* call, the call has ended with the reference stage's error; the key of the
\* failed lookup has no entry (empty or not) in the reference map; the
\* policy engine was not entered and got no map, and no token claims and no
\* token were made.
C13_LookupFailureAborts ==
    \A t \in Tasks : (Evaluating(t) /\ FailedLookups(t) # {}) =>
        /\ pc[t] = "done"
        /\ result[t] = Err("refs")
        /\ \A i \in FailedLookups(t) :
            call[t].lookups[i].key \notin DOMAIN call[t].data
        /\ ~Contains(call[t].trace, "policy")
        /\ ~Contains(call[t].trace, "issue")
        /\ call[t].policy_answer = "none"
        /\ call[t].used = {}
        /\ call[t].payload = None

\* The first key was found with reference values, the second lookup failed.
C13_Witness ==
    \E t \in Tasks :
        /\ Finished(t)
        /\ Len(call[t].lookups) = 2
        /\ call[t].lookups[1].ok /\ call[t].lookups[1].digests # {}
        /\ ~call[t].lookups[2].ok
        /\ DOMAIN call[t].data = {call[t].lookups[1].key}

CompletingOps == {"evaluate", "set_policy", "register_reference_value"}

\* C15: under fair scheduling, with every collaborator call returning, every
\* evaluate, set_policy and register_reference_value call that has asked for
\* the service eventually completes with a result or an error, whatever the
\* other tasks call.
C15_EveryCallCompletes ==
    \A t \in Tasks :
        (pc[t] = "lock" /\ op[t] \in CompletingOps)
            ~> (pc[t] = "done" /\ result[t].kind # "none")

\* A set_policy call waits for the mutex while an evaluate call of another
\* task is at its policy evaluation.
C15_Witness ==
    \E t, u \in Tasks :
        /\ op[t] = "set_policy" /\ Waiting(t)
        /\ op[u] = "evaluate" /\ pc[u] = "policy"

PolicyApi == {"set_policy", "remove_policy", "list_policy"}
NotImplemented(t) == op[t] \in PolicyApi /\ op[t] \notin Implemented(variant)
Stores == <<policies, rvStore>>

\* C16: in a deployment variant that does not implement set_policy,
\* remove_policy or list_policy, every call of that operation returns an
\* error and changes no state: the call never returns success without having
\* performed the operation.
C16_UnimplementedIsError ==
    [][\A t \in Tasks :
        (NotImplemented(t) /\ pc[t] = "locked" /\ pc'[t] # "locked")
            => /\ pc'[t] = "done"
               /\ result'[t] = Err("unimplemented")
               /\ Stores' = Stores]_vars

\* A set_policy call of the variant without set_policy has returned.
C16_Witness ==
    \E t \in Tasks :
        /\ variant = "amber-as"
        /\ op[t] = "set_policy"
        /\ pc[t] = "done"
        /\ result[t].kind = "err"

\* C17 as stated: a remove_policy call whose identifier is not in the store
\* returns success.
C17_RemoveAbsentSucceeds ==
    \A t \in Tasks :
        (op[t] = "remove_policy" /\ pc[t] = "done"
                /\ policies[mut[t].id] = Absent)
            => result[t].kind = "ok"

\* C17: every remove_policy call, whether or not its identifier is in the
\* store, returns the "unimplemented" error and leaves the policy store as it
\* was, so that a second call has the same effect as the first.
C17_RemovePolicyIsUnimplemented ==
    [][\A t \in Tasks :
        (op[t] = "remove_policy" /\ pc[t] = "locked" /\ pc'[t] # "locked")
            => /\ result'[t] = Err("unimplemented")
               /\ policies' = policies]_vars

\* A remove_policy call whose identifier is not in the store has returned,
\* while another policy is stored.
C17_Witness ==
    \E t \in Tasks :
        /\ op[t] = "remove_policy"
        /\ pc[t] = "done"
        /\ policies[mut[t].id] = Absent
        /\ \E id \in PolicyIds : policies[id] # Absent

StoreWriters == {"set_policy", "register_reference_value"}
Stepped(t) == pc'[t] # pc[t] \/ call'[t] # call[t]

C18_WitnessEvaluate ==
    \E t \in Tasks :
        /\ Finished(t)
        /\ result[t] = Err("policy")
        /\ \E id \in PolicyIds : policies[id] # Absent
        /\ \E k \in Keys : rvStore[k] # {}

====
